---- MODULE Spec2Model ----
(***************************************************************************)
(* Model of src/evaler.rs of fasteval2: the Evaler trait (var_names), the  *)
(* Expression reduction engine (Expression::eval with its eval_op, rtol    *)
(* and ltor helpers) and the operator table (BinaryOp::binaryop_eval).     *)
(*                                                                         *)
(* f64 values are modelled as extended rationals <<n, d>>:                 *)
(*   d >= 1        the finite number n/d in lowest terms,                  *)
(*   <<1, 0>>      +infinity,  <<-1, 0>>  -infinity,  <<0, 0>>  NaN.       *)
(* Finite results whose magnitude exceeds MaxMag overflow to an infinity   *)
(* and those below 1/MaxMag underflow to zero, as f64 does beyond its      *)
(* range.  Rounding and the sign of zero are not modelled.                 *)
(***************************************************************************)
EXTENDS Integers, Sequences, FiniteSets, TLC

\* ---------------------------------------------------------------- bounds
\* largest finite magnitude of the modelled number format
MaxMag == 1000
\* longest token sequence of the shape specification
MaxToks == 5
\* most operators in an expression of the chain specification
MaxChain == 3
\* most operators in an expression of the order specification
MaxOrder == 2
\* most operators in an expression of the tier specification
MaxTier == 2

\* ---------------------------------------------------------------- f64
NaN == <<0, 0>>
PosInf == <<1, 0>>
NegInf == <<-1, 0>>
Zero == <<0, 1>>
One == <<1, 1>>

Abs(x) == IF x < 0 THEN -x ELSE x

Sgn(x) == IF x < 0 THEN -1 ELSE IF x > 0 THEN 1 ELSE 0

\* the element of a one-element set (binds an intermediate result by value)
The(S) == CHOOSE x \in S : TRUE

RECURSIVE GCD(_, _)
GCD(a, b) == IF b = 0 THEN a ELSE The({GCD(b, r) : r \in {a % b}})

IsNaN(a) == a = NaN

IsInf(a) == a = PosInf \/ a = NegInf

IsInt(a) == a[2] = 1

\* the f64 nearest to the real number n/d (d > 0)
Mk(n, d) ==
    LET g == GCD(Abs(n), d)
        nn == n \div g
        dd == d \div g
    IN  IF Abs(nn) \div dd > MaxMag THEN <<Sgn(nn), 0>>
        ELSE IF nn # 0 /\ dd \div Abs(nn) > MaxMag THEN Zero
        ELSE <<nn, dd>>

FSign(a) == IF a[1] < 0 THEN -1 ELSE 1

FNeg(a) == <<-a[1], a[2]>>

\* left + right
FAdd(a, b) ==
    IF IsNaN(a) \/ IsNaN(b) THEN NaN
    ELSE IF IsInf(a) /\ IsInf(b) THEN (IF a = b THEN a ELSE NaN)
    ELSE IF IsInf(a) THEN a
    ELSE IF IsInf(b) THEN b
    ELSE Mk(a[1] * b[2] + b[1] * a[2], a[2] * b[2])

\* left - right
FSub(a, b) == FAdd(a, FNeg(b))

\* left * right
FMul(a, b) ==
    IF IsNaN(a) \/ IsNaN(b) THEN NaN
    ELSE IF IsInf(a) \/ IsInf(b)
         THEN (IF a = Zero \/ b = Zero THEN NaN ELSE <<FSign(a) * FSign(b), 0>>)
    ELSE Mk(a[1] * b[1], a[2] * b[2])

\* left / right: IEEE division, x/0 is an infinity or NaN
FDiv(a, b) ==
    IF IsNaN(a) \/ IsNaN(b) THEN NaN
    ELSE IF IsInf(a) THEN (IF IsInf(b) THEN NaN ELSE <<FSign(a) * FSign(b), 0>>)
    ELSE IF IsInf(b) THEN Zero
    ELSE IF b = Zero THEN (IF a = Zero THEN NaN ELSE <<FSign(a), 0>>)
    ELSE Mk(a[1] * b[2] * Sgn(b[1]), a[2] * Abs(b[1]))

\* the integer part of a finite number, rounded toward zero
Trunc(a) == <<Sgn(a[1]) * (Abs(a[1]) \div a[2]), 1>>

\* left % right: truncating remainder, sign follows the dividend
FRem(a, b) ==
    IF IsNaN(a) \/ IsNaN(b) \/ IsInf(a) \/ b = Zero THEN NaN
    ELSE IF IsInf(b) THEN a
    ELSE The({FSub(a, p) : p \in {FMul(t, b) : t \in {Trunc(q) : q \in {FDiv(a, b)}}}})

\* acc * base * base * ... (k factors of base); an overflowed or underflowed
\* product keeps its magnitude, only its sign can still change
RECURSIVE PowNat(_, _, _)
PowNat(acc, a, k) ==
    IF k = 0 \/ acc = Zero THEN acc
    ELSE IF IsInf(acc)
         THEN (IF a[1] < 0 /\ k % 2 = 1 THEN FNeg(acc) ELSE acc)
    ELSE The({PowNat(m, a, k - 1) : m \in {FMul(acc, a)}})

\* left.powf(right) for an integral or infinite exponent; a finite
\* fractional exponent is outside the modelled number format (NaN here, as
\* f64 gives for a negative base)
FPow(a, b) ==
    IF b = Zero \/ a = One THEN One
    ELSE IF IsNaN(a) \/ IsNaN(b) THEN NaN
    ELSE IF b = PosInf
         THEN (IF a = <<-1, 1>> THEN One
               ELSE IF IsInf(a) \/ Abs(a[1]) > a[2] THEN PosInf ELSE Zero)
    ELSE IF b = NegInf
         THEN (IF a = <<-1, 1>> THEN One
               ELSE IF IsInf(a) \/ Abs(a[1]) > a[2] THEN Zero ELSE PosInf)
    ELSE IF ~IsInt(b) THEN NaN
    ELSE IF a = <<-1, 1>> THEN (IF b[1] % 2 = 0 THEN One ELSE a)
    ELSE IF b[1] > 0 THEN PowNat(One, a, b[1])
    ELSE FDiv(One, PowNat(One, a, -b[1]))

FLt(a, b) ==
    IF IsNaN(a) \/ IsNaN(b) \/ a = b THEN FALSE
    ELSE IF a = NegInf \/ b = PosInf THEN TRUE
    ELSE IF a = PosInf \/ b = NegInf THEN FALSE
    ELSE a[1] * b[2] < b[1] * a[2]

FEq(a, b) == ~IsNaN(a) /\ ~IsNaN(b) /\ a = b

FLe(a, b) == FLt(a, b) \/ FEq(a, b)

bool_to_f64(b) == IF b THEN One ELSE Zero

\* ---------------------------------------------------------------- grammar
BinaryOps == {"EPlus", "EMinus", "EMul", "EDiv", "EMod", "EExp", "ELT", "ELTE",
              "EEQ", "ENE", "EGTE", "EGT", "EOR", "EAND"}

\* ExpressionTok::EValue(Value::EConstant(Constant(c)))
EConstant(c) == [tag |-> "EValue", val |-> "EConstant", c |-> c, name |-> "", bop |-> ""]

\* ExpressionTok::EValue of a variable reference, resolved by the namespace
EVariable(n) == [tag |-> "EValue", val |-> "EVariable", c |-> Zero, name |-> n, bop |-> ""]

\* ExpressionTok::EBinaryOp(bop)
EBinaryOp(b) == [tag |-> "EBinaryOp", val |-> "", c |-> Zero, name |-> "", bop |-> b]

\* Option<f64>
None == [some |-> FALSE, v |-> Zero]

Some(v) == [some |-> TRUE, v |-> v]

\* Result<f64, Error>
Ok(v) == [ok |-> TRUE, v |-> v, err |-> ""]

Err(m) == [ok |-> FALSE, v |-> Zero, err |-> m]

\* ---------------------------------------------------------------- operator table
\* variant: || and && as boolean operators yielding 0.0 / 1.0
binaryop_eval_Boolean(op, left, right) ==
    CASE op = "EPlus"  -> FAdd(left, right)
      [] op = "EMinus" -> FSub(left, right)
      [] op = "EMul"   -> FMul(left, right)
      [] op = "EDiv"   -> FDiv(left, right)
      [] op = "EMod"   -> FRem(left, right)
      [] op = "EExp"   -> FPow(left, right)
      [] op = "ELT"    -> bool_to_f64(FLt(left, right))
      [] op = "ELTE"   -> bool_to_f64(FLe(left, right))
      [] op = "EEQ"    -> bool_to_f64(FEq(left, right))
      [] op = "ENE"    -> bool_to_f64(~FEq(left, right))
      [] op = "EGTE"   -> bool_to_f64(FLe(right, left))
      [] op = "EGT"    -> bool_to_f64(FLt(right, left))
      [] op = "EOR"    -> bool_to_f64(~FEq(left, Zero) \/ ~FEq(right, Zero))
      [] op = "EAND"   -> bool_to_f64(~FEq(left, Zero) /\ ~FEq(right, Zero))

binaryop_eval(op, left, right) ==
    CASE op = "EPlus"  -> FAdd(left, right)
      [] op = "EMinus" -> FSub(left, right)
      [] op = "EMul"   -> FMul(left, right)
      [] op = "EDiv"   -> FDiv(left, right)
      [] op = "EMod"   -> FRem(left, right)
      [] op = "EExp"   -> FPow(left, right)
      [] op = "ELT"    -> bool_to_f64(FLt(left, right))
      [] op = "ELTE"   -> bool_to_f64(FLe(left, right))
      [] op = "EEQ"    -> bool_to_f64(FEq(left, right))
      [] op = "ENE"    -> bool_to_f64(~FEq(left, right))
      [] op = "EGTE"   -> bool_to_f64(FLe(right, left))
      [] op = "EGT"    -> bool_to_f64(FLt(right, left))
      [] op = "EOR"    -> IF ~FEq(left, Zero) THEN left ELSE right
      [] op = "EAND"   -> IF FEq(left, Zero) THEN left ELSE right

\* ---------------------------------------------------------------- state
VARIABLES
    toks,     \* self.0, the flattened expression (immutable input)
    caller,   \* "eval": eval called with the caller's namespace; "var_names"
    cb,       \* the caller's namespace callback: name -> Option<f64>
    pc,       \* position of the call
    vals,     \* Vec<f64> of resolved operands
    ops,      \* Vec<BinaryOp>
    idx,      \* enumerate() index of the split loop (0-based)
    pass,     \* which of the fourteen rtol/ltor calls is running (1..14)
    i,        \* loop variable of rtol / ltor
    result,   \* what Expression::eval returned
    set,      \* var_names' HashSet
    ret,      \* what the entry point returned to its caller
    calls,    \* history: token positions handed to ns.eval_bubble, in order
    applied   \* history: operators applied by eval_op, in order

vars == <<toks, caller, cb, pc, vals, ops, idx, pass, i, result, set, ret, calls, applied>>

\* variant: the == pass before the < pass
PassOrder_EqFirst == <<"EExp", "EMod", "EDiv", "EMul", "EMinus", "EPlus", "EEQ", "EGT",
                       "ELTE", "EGTE", "ELT", "ENE", "EAND", "EOR">>

\* variant: the * pass before the % and / passes
PassOrder_MulFirst == <<"EExp", "EMul", "EDiv", "EMod", "EMinus", "EPlus", "ELT", "EGT",
                        "ELTE", "EGTE", "EEQ", "ENE", "EAND", "EOR">>

\* the fourteen calls of lines 110-123, in order
PassOrder == <<"EExp", "EMod", "EDiv", "EMul", "EMinus", "EPlus", "ELT", "EGT",
               "ELTE", "EGTE", "EEQ", "ENE", "EAND", "EOR">>

\* variant: ^ scanned left to right
IsRtol_ExpLtor(op) == op \in {"EMul", "EPlus"}

\* the calls that are rtol(...); the others are ltor(...)
IsRtol(op) == op \in {"EExp", "EMul", "EPlus"}

\* self.0.len()%2!=1
LenIsOdd(t) == Len(t) % 2 = 1

\* the namespace closure: var_names' stub answers None, eval's caller answers cb
Callback(name) == IF caller = "var_names" THEN None ELSE cb[name]

\* ns.eval_bubble(val): a constant evaluates to itself, a variable goes
\* through the namespace callback and fails when that has no value
eval_bubble(tok) ==
    IF tok.val = "EConstant" THEN Ok(tok.c)
    ELSE IF Callback(tok.name).some THEN Ok(Callback(tok.name).v)
    ELSE Err("variable undefined")

\* Vec::remove(k), k 0-based
Remove(s, k) == SubSeq(s, 1, k) \o SubSeq(s, k + 2, Len(s))

\* variant: the right operand is not removed
EvalOpVals_NoRemove(vs, os, k) ==
    [vs EXCEPT ![k + 1] = binaryop_eval(os[k + 1], vs[k + 1], vs[k + 2])]

\* eval_op: vals[i]=result; vals.remove(i+1)
EvalOpVals(vs, os, k) ==
    Remove([vs EXCEPT ![k + 1] = binaryop_eval(os[k + 1], vs[k + 1], vs[k + 2])], k + 1)

\* variant: the operator is not removed
EvalOpOps_NoRemove(os, k) == os

\* eval_op: ops.remove(i)
EvalOpOps(os, k) == Remove(os, k)

\* eval_op indexes ops[i], vals[i], vals[i+1]; out of range is a panic
EvalOpInRange(vs, os, k) == k >= 0 /\ k < Len(os) /\ k + 1 < Len(vs)

\* variant: the parity test inverted
ValueAtOddIndex_Inverted(k) == k % 2 = 0

\* variant: no parity test
ValueAtOddIndex_Never(k) == FALSE

\* if i%2==1 { return Err("Found value at odd index") }
ValueAtOddIndex(k) == k % 2 = 1

\* if i%2==0 { return Err("Found binaryop at even index") }
BinaryOpAtEvenIndex(k) == k % 2 = 0

Pending == Err("pending")

NoReturn == [ok |-> FALSE, v |-> Zero, names |-> {}, err |-> "pending"]

\* ---------------------------------------------------------------- actions
\* line 28: the length check
CheckLen ==
    /\ pc = "start"
    /\ IF ~LenIsOdd(toks)
       THEN /\ result' = Err("Expression len should always be odd")
            /\ pc' = "done"
       ELSE /\ result' = result
            /\ pc' = "split"
    /\ UNCHANGED <<toks, caller, cb, vals, ops, idx, pass, i, set, ret, calls, applied>>

\* lines 49-58: one iteration of the split loop on an EValue token
SplitValue ==
    /\ pc = "split"
    /\ toks[idx + 1].tag = "EValue"
    /\ LET tok == toks[idx + 1]
           r == eval_bubble(tok)
       IN  IF ValueAtOddIndex(idx)
           THEN /\ result' = Err("Found value at odd index")
                /\ pc' = "done"
                /\ UNCHANGED <<vals, idx, set, calls>>
           ELSE /\ calls' = Append(calls, idx)
                /\ set' = IF caller = "var_names" /\ tok.val = "EVariable"
                          THEN set \cup {tok.name} ELSE set
                /\ IF r.ok
                   THEN /\ vals' = Append(vals, r.v)
                        /\ idx' = idx + 1
                        /\ pc' = IF idx + 1 = Len(toks) THEN "pass" ELSE "split"
                        /\ result' = result
                   ELSE /\ result' = Err("eval_bubble")
                        /\ pc' = "done"
                        /\ UNCHANGED <<vals, idx>>
    /\ UNCHANGED <<toks, caller, cb, ops, pass, i, ret, applied>>

\* lines 59-62: one iteration of the split loop on an EBinaryOp token
SplitOp ==
    /\ pc = "split"
    /\ toks[idx + 1].tag = "EBinaryOp"
    /\ IF BinaryOpAtEvenIndex(idx)
       THEN /\ result' = Err("Found binaryop at even index")
            /\ pc' = "done"
            /\ UNCHANGED <<ops, idx>>
       ELSE /\ ops' = Append(ops, toks[idx + 1].bop)
            /\ idx' = idx + 1
            /\ pc' = IF idx + 1 = Len(toks) THEN "pass" ELSE "split"
            /\ result' = result
    /\ UNCHANGED <<toks, caller, cb, vals, pass, i, set, ret, calls, applied>>

\* entry of rtol (let mut i = ops.len()) or of ltor (let mut i = -1)
PassBegin ==
    /\ pc = "pass"
    /\ IF IsRtol(PassOrder[pass])
       THEN /\ i' = Len(ops)
            /\ pc' = "rtol"
       ELSE /\ i' = -1
            /\ pc' = "ltor"
    /\ UNCHANGED <<toks, caller, cb, vals, ops, idx, pass, result, set, ret, calls, applied>>

\* the part of the state that rtol, ltor and eval_op work on
Here == [pc |-> pc, pass |-> pass, vals |-> vals, ops |-> ops, i |-> i, applied |-> applied]

\* an index out of range
Panic == [Here EXCEPT !.pc = "panic"]

\* rtol / ltor returns: the next of the fourteen calls, or lines 125-127
PassEnd ==
    IF pass = Len(PassOrder)
    THEN [Here EXCEPT !.pc = "final"]
    ELSE [Here EXCEPT !.pc = "pass", !.pass = pass + 1]

\* eval_op(ops, k), after which the scan goes on from index ni
Collapse(k, ni) ==
    IF EvalOpInRange(vals, ops, k)
    THEN [Here EXCEPT !.vals = EvalOpVals(vals, ops, k),
                      !.ops = EvalOpOps(ops, k),
                      !.applied = Append(applied, ops[k + 1]),
                      !.i = ni]
    ELSE Panic

\* lines 89-92: i-=1; if i<0 { break }; if ops[i]==op { eval_op(ops,i); }
Rtol ==
    LET k == i - 1
    IN  IF k < 0 THEN PassEnd
        ELSE IF k >= Len(ops) THEN Panic
        ELSE IF ops[k + 1] = PassOrder[pass] THEN Collapse(k, k)
        ELSE [Here EXCEPT !.i = k]

\* variant: the scan goes on after a collapse instead of starting again
Ltor_NoRestart ==
    LET k == i + 1
    IN  IF k >= Len(ops) THEN PassEnd
        ELSE IF ops[k + 1] = PassOrder[pass] THEN Collapse(k, k)
        ELSE [Here EXCEPT !.i = k]

\* lines 99-105: i+=1; if i>=ops.len() { break 'outer }; if ops[i]==op
\* { eval_op(ops,i); continue 'outer }, which starts again from i = -1
Ltor ==
    LET k == i + 1
    IN  IF k >= Len(ops) THEN PassEnd
        ELSE IF ops[k + 1] = PassOrder[pass] THEN Collapse(k, -1)
        ELSE [Here EXCEPT !.i = k]

Goto(s) ==
    /\ pc' = s.pc
    /\ pass' = s.pass
    /\ vals' = s.vals
    /\ ops' = s.ops
    /\ i' = s.i
    /\ applied' = s.applied

\* one iteration of rtol's loop
RtolStep ==
    /\ pc = "rtol"
    /\ Goto(Rtol)
    /\ UNCHANGED <<toks, caller, cb, idx, result, set, ret, calls>>

\* one iteration of ltor's inner loop
LtorStep ==
    /\ pc = "ltor"
    /\ Goto(Ltor)
    /\ UNCHANGED <<toks, caller, cb, idx, result, set, ret, calls>>

\* lines 125-127
Finalize ==
    /\ pc = "final"
    /\ result' = IF Len(ops) # 0 THEN Err("Unhandled Expression ops")
                 ELSE IF Len(vals) # 1 THEN Err("More than one final Expression value")
                 ELSE Ok(vals[1])
    /\ pc' = "done"
    /\ UNCHANGED <<toks, caller, cb, vals, ops, idx, pass, i, set, ret, calls, applied>>

\* eval returns to its caller; in var_names: self.eval(&mut ns)?; Ok(set)
Return ==
    /\ pc = "done"
    /\ ret' = IF caller = "eval"
              THEN [ok |-> result.ok, v |-> result.v, names |-> {}, err |-> result.err]
              ELSE IF result.ok
                   THEN [ok |-> TRUE, v |-> Zero, names |-> set, err |-> ""]
                   ELSE [ok |-> FALSE, v |-> Zero, names |-> {}, err |-> result.err]
    /\ pc' = "returned"
    /\ UNCHANGED <<toks, caller, cb, vals, ops, idx, pass, i, result, set, calls, applied>>

Next ==
    \/ CheckLen
    \/ SplitValue
    \/ SplitOp
    \/ PassBegin
    \/ RtolStep
    \/ LtorStep
    \/ Finalize
    \/ Return

\* ---------------------------------------------------------------- initial states
Two == <<2, 1>>

Three == <<3, 1>>

Names == {"x", "y"}

NoValues == [n \in Names |-> None]

\* the state at the call of eval or var_names on expression t
InitCall(t, m, c) ==
    /\ toks = t
    /\ caller = m
    /\ cb = c
    /\ pc = "start"
    /\ vals = <<>>
    /\ ops = <<>>
    /\ idx = 0
    /\ pass = 1
    /\ i = 0
    /\ result = Pending
    /\ set = {}
    /\ ret = NoReturn
    /\ calls = <<>>
    /\ applied = <<>>

\* operand, operator, operand, ...
Flat(leaves, opseq) ==
    [k \in 1..(2 * Len(leaves) - 1) |->
        IF k % 2 = 1 THEN EConstant(leaves[(k + 1) \div 2])
        ELSE EBinaryOp(opseq[k \div 2])]

ShapeToks == {EConstant(Zero), EVariable("x"), EVariable("y"),
              EBinaryOp("EDiv"), EBinaryOp("EAND"), EBinaryOp("EOR")}

\* any token sequence, well-formed or not, by eval (with a namespace that
\* defines any subset of the names) or by var_names
Init ==
    \E n \in 0..MaxToks :
        \E t \in [1..n -> ShapeToks] :
            \/ InitCall(t, "var_names", NoValues)
            \/ \E c \in [Names -> {None, Some(Two), Some(Three)}] :
                   /\ c["x"] # Some(Three)
                   /\ c["y"] # Some(Two)
                   /\ InitCall(t, "eval", c)

Spec == Init /\ [][Next]_vars

Leaves == {Zero, Two, Three}

\* a1 op a2 op ... op an with one operator, any of the fourteen
InitChain ==
    \E n \in 1..MaxChain :
        \E op \in BinaryOps :
            \E lv \in [1..(n + 1) -> Leaves] :
                InitCall(Flat(lv, [k \in 1..n |-> op]), "eval", NoValues)

SpecChain == InitChain /\ [][Next]_vars

\* the operands 2, 3, 4, ... joined by any operators
InitOrder ==
    \E n \in 0..MaxOrder :
        \E os \in [1..n -> BinaryOps] :
            InitCall(Flat([j \in 1..(n + 1) |-> <<j + 1, 1>>], os), "eval", NoValues)

SpecOrder == InitOrder /\ [][Next]_vars

\* the call is sequential code: it always takes its next step
FairSpecOrder == SpecOrder /\ WF_vars(Next)

Comparisons == {"ELT", "ELTE", "EGT", "EGTE", "EEQ", "ENE"}

Logicals == {"EAND", "EOR"}

\* expressions whose operators are all comparisons, or all && and ||
InitTier ==
    \E n \in 1..MaxTier :
        \E tier \in {Comparisons, Logicals} :
            \E os \in [1..n -> tier] :
                \E lv \in [1..(n + 1) -> {Zero, One, Two}] :
                    InitCall(Flat(lv, os), "eval", NoValues)

SpecTier == InitTier /\ [][Next]_vars

\* ---------------------------------------------------------------- properties
\* the operands of a well-formed token sequence
LeavesOf(t) == [j \in 1..((Len(t) + 1) \div 2) |-> t[2 * j - 1].c]

\* the operators of a well-formed token sequence
OpsOf(t) == [j \in 1..((Len(t) - 1) \div 2) |-> t[2 * j].bop]

\* odd length, operands at even positions, operators at odd positions
WellFormed(t) ==
    /\ Len(t) % 2 = 1
    /\ \A k \in 1..Len(t) : t[k].tag = (IF k % 2 = 1 THEN "EValue" ELSE "EBinaryOp")

\* the namespace of this call has a value for the operand
Resolves(tok) ==
    tok.tag = "EValue" =>
        (tok.val = "EConstant" \/ (caller = "eval" /\ cb[tok.name] # None))

Reducing == pc \in {"pass", "rtol", "ltor", "final"}

StructuralErrors == {"Unhandled Expression ops", "More than one final Expression value"}

\* a1 op (a2 op (... op an))
RECURSIVE FoldR(_, _)
FoldR(op, lv) ==
    IF Len(lv) = 1 THEN lv[1]
    ELSE binaryop_eval(op, lv[1], FoldR(op, Tail(lv)))

\* ((a1 op1 a2) op2 a3) ... an
RECURSIVE FoldL(_, _)
FoldL(os, lv) ==
    IF Len(lv) = 1 THEN lv[1]
    ELSE binaryop_eval(os[Len(os)],
                       FoldL(SubSeq(os, 1, Len(os) - 1), SubSeq(lv, 1, Len(lv) - 1)),
                       lv[Len(lv)])

AllOps(t, opset) == Len(t) >= 3 /\ \A j \in 1..Len(OpsOf(t)) : OpsOf(t)[j] \in opset

\* C1: for a shape-valid expression whose operands all resolve,
\* len(vals) = len(ops) + 1 when reduction begins and after every collapse,
\* after the fourteen passes vals has one element and ops none, and neither
\* finalization check fails.
C1_LengthInvariant ==
    /\ pc # "panic"
    /\ Reducing => Len(vals) = Len(ops) + 1
    /\ Reducing => Len(ops) + Len(applied) = Len(OpsOf(toks))
    /\ pc = "final" => (Len(vals) = 1 /\ Len(ops) = 0)
    /\ result.err \notin StructuralErrors
    /\ pc = "returned" => ret.ok

C1_Witness ==
    /\ pc = "final"
    /\ Len(applied) = MaxOrder
    /\ Len(vals) = 1
    /\ Len(ops) = 0

\* C2: a chain of '^' evaluates to the right-nested a1 ^ (a2 ^ (... ^ an)),
\* each collapse of the pass being at the highest remaining index.
C2_ExpRightAssoc ==
    AllOps(toks, {"EExp"}) =>
        /\ pc = "returned" => (ret.ok /\ ret.v = FoldR("EExp", LeavesOf(toks)))
        /\ \A k \in 1..Len(applied) : applied[k] = "EExp"
        /\ (pc = "rtol" /\ pass = 1) => (i = Len(ops) /\ Len(vals) = Len(ops) + 1
               /\ vals[Len(vals)] = FoldR("EExp", SubSeq(LeavesOf(toks), Len(vals), Len(LeavesOf(toks)))))

C2_Witness ==
    /\ pc = "returned"
    /\ AllOps(toks, {"EExp"})
    /\ Len(toks) >= 5
    /\ ret.v = FoldR("EExp", LeavesOf(toks))
    /\ ret.v # FoldL(OpsOf(toks), LeavesOf(toks))

\* an eval_op happens in this step
Collapsing == Len(applied') = Len(applied) + 1

\* the result of a chain of one of '-', '/', '%' is its left fold
C3_Result ==
    (AllOps(toks, {"EMinus"}) \/ AllOps(toks, {"EDiv"}) \/ AllOps(toks, {"EMod"})) =>
        (pc = "returned" => (ret.ok /\ ret.v = FoldL(OpsOf(toks), LeavesOf(toks))))

\* a collapse of a left-to-right pass is at the lowest index holding the
\* pass's operator, and the scan then starts again
C3_Step ==
    (pc = "ltor" /\ Collapsing) =>
        /\ ops[i + 2] = PassOrder[pass]
        /\ \A j \in 1..(i + 1) : ops[j] # PassOrder[pass]
        /\ i' = -1

\* C3: a chain of one of '-', '/', '%' evaluates to the left-nested
\* ((a1 op a2) op a3) ... op an, and every collapse of a left-to-right pass,
\* also after a restart, is at the lowest index holding the pass's operator.
C3_LeftAssoc == []C3_Result /\ [][C3_Step]_vars

C3_Witness ==
    /\ pc = "returned"
    /\ AllOps(toks, {"EMinus", "EDiv", "EMod"})
    /\ Len(toks) >= 5
    /\ ret.v = FoldL(OpsOf(toks), LeavesOf(toks))
    /\ ret.v # FoldR(OpsOf(toks)[1], LeavesOf(toks))

\* the level of an operator in a sequence of operators
LevelIn(order, op) == CHOOSE k \in 1..Len(order) : order[k] = op

TierOrder == <<"ELT", "EGT", "ELTE", "EGTE", "EEQ", "ENE", "EAND", "EOR">>

\* evaluation by precedence: the loosest operator, at its last occurrence,
\* is the root and joins the values of the two sides
RECURSIVE PrecEval(_, _)
PrecEval(os, lv) ==
    IF Len(os) = 0 THEN lv[1]
    ELSE LET top == CHOOSE m \in 1..Len(TierOrder) :
                        /\ \E j \in 1..Len(os) : LevelIn(TierOrder, os[j]) = m
                        /\ \A j \in 1..Len(os) : LevelIn(TierOrder, os[j]) <= m
             p == CHOOSE j \in 1..Len(os) :
                        /\ LevelIn(TierOrder, os[j]) = top
                        /\ \A q \in (j + 1)..Len(os) : LevelIn(TierOrder, os[q]) # top
         IN  binaryop_eval(os[p],
                           PrecEval(SubSeq(os, 1, p - 1), SubSeq(lv, 1, p)),
                           PrecEval(SubSeq(os, p + 1, Len(os)), SubSeq(lv, p + 1, Len(lv))))

\* C4 as stated: an expression whose operators are all comparisons, or all
\* && and ||, evaluates to the left fold of its operands, whichever
\* operators of the tier they are.
C4_TierLeftFold ==
    (pc = "returned" /\ (AllOps(toks, Comparisons) \/ AllOps(toks, Logicals))) =>
        (ret.ok /\ ret.v = FoldL(OpsOf(toks), LeavesOf(toks)))

\* C4 amended: each of <, >, <=, >=, ==, !=, &&, || is a precedence level
\* of its own, in this order from tightest to loosest, and associates left
\* to right; a chain of one of them evaluates to its left fold.
C4_OwnLevels ==
    (pc = "returned" /\ (AllOps(toks, Comparisons) \/ AllOps(toks, Logicals))) =>
        /\ ret.ok
        /\ ret.v = PrecEval(OpsOf(toks), LeavesOf(toks))
        /\ (\A j \in 1..Len(OpsOf(toks)) : OpsOf(toks)[j] = OpsOf(toks)[1]) =>
               ret.v = FoldL(OpsOf(toks), LeavesOf(toks))

C4_Witness ==
    /\ pc = "returned"
    /\ OpsOf(toks) = <<"EEQ", "ELT">>
    /\ ret.v = binaryop_eval("EEQ", toks[1].c, binaryop_eval("ELT", toks[3].c, toks[5].c))
    /\ ret.v # FoldL(OpsOf(toks), LeavesOf(toks))

\* what an application of || or && leaves in vals
C5_Step ==
    (pc = "ltor" /\ Collapsing /\ ops[i + 2] \in {"EOR", "EAND"}) =>
        LET left == vals[i + 2]
            right == vals[i + 3]
            out == vals'[i + 2]
        IN  /\ ops[i + 2] = "EOR" => out = (IF left # Zero THEN left ELSE right)
            /\ ops[i + 2] = "EAND" => out = (IF left = Zero THEN left ELSE right)
            /\ out \in {left, right}

\* C5: || returns left when left != 0 and right otherwise, && returns left
\* when left == 0 and right otherwise; the result is one of the two operands
\* and is not coerced to 0 or 1.
C5_ValueReturning == [][C5_Step]_vars

C5_Witness ==
    /\ pc = "returned"
    /\ toks = <<EVariable("x"), EBinaryOp("EAND"), EVariable("y")>>
    /\ applied = <<"EAND">>
    /\ ret.ok
    /\ ret.v = Three

\* C6: eval returns a number exactly when the token sequence is well formed
\* and every operand resolves; otherwise it returns an error, whatever the
\* operators compute (an infinity or NaN is returned as a number).
C6_OkIffValid ==
    /\ pc # "panic"
    /\ pc \in {"done", "returned"} =>
        /\ result.ok <=> (WellFormed(toks) /\ \A k \in 1..Len(toks) : Resolves(toks[k]))
        /\ result.ok => (Len(vals) = 1 /\ result.v = vals[1] /\ Len(applied) = Len(OpsOf(toks)))
        /\ ~result.ok => result.v = Zero
        /\ (pc = "returned" /\ caller = "eval") => (ret.ok = result.ok /\ ret.v = result.v)

C6_Witness ==
    /\ pc = "returned"
    /\ caller = "eval"
    /\ ret.ok
    /\ ret.v = NaN
    /\ \E k \in 1..Len(toks) : toks[k].val = "EVariable"

\* the names of the operands handed to the recording namespace
Asked == {toks[k + 1].name : k \in {c \in 0..(Len(toks) - 1) :
              (\E q \in 1..Len(calls) : calls[q] = c) /\ toks[c + 1].val = "EVariable"}}

\* C7: for a well-formed expression var_names returns the set of names the
\* recording namespace was asked to resolve, also when the evaluation
\* against it ended in a resolution error.
C7_VarNames ==
    (pc = "returned" /\ caller = "var_names" /\ WellFormed(toks)) =>
        (ret.ok /\ ret.names = Asked)

C9Order == <<"EExp", "EMod", "EDiv", "EMul", "EMinus", "EPlus", "ELT", "EGT",
             "ELTE", "EGTE", "EEQ", "ENE", "EAND", "EOR">>

\* C9: operators are collapsed in the order ^ % / * - + < > <= >= == != && ||:
\* no operator of a finished pass remains, and whenever an operator has been
\* collapsed no operator of an earlier pass is left.
C9_PassOrder ==
    /\ pc \in {"pass", "rtol", "ltor"} =>
           \A j \in 1..Len(ops) : LevelIn(C9Order, ops[j]) >= pass
    /\ pc \in {"rtol", "ltor"} =>
           \A k \in 1..Len(applied) : LevelIn(C9Order, applied[k]) <= pass
    /\ pc = "pass" =>
           \A k \in 1..Len(applied) : LevelIn(C9Order, applied[k]) < pass
    /\ pc \in {"final", "done", "returned"} => Len(ops) = 0
    /\ \A k \in 1..Len(applied) : \A j \in 1..Len(ops) :
           LevelIn(C9Order, applied[k]) <= LevelIn(C9Order, ops[j])
    /\ \A k \in 1..(Len(applied) - 1) :
           LevelIn(C9Order, applied[k]) <= LevelIn(C9Order, applied[k + 1])

C9_Witness ==
    /\ OpsOf(toks) = <<"EPlus", "EMul">>
    /\ applied = <<"EMul", "EPlus">>
    /\ pc = "returned"
    /\ ret.v = <<14, 1>>

\* the positions 0, 2, 4, ... below n
EvenPositions(n) == [k \in 1..((n + 1) \div 2) |-> 2 * (k - 1)]

C8_Safe ==
    /\ pc # "panic"
    /\ Len(applied) <= Len(OpsOf(toks))
    /\ (pc = "returned" /\ ret.ok) => Len(applied) = Len(OpsOf(toks))
    /\ pc = "rtol" => (i >= 0 /\ i <= Len(ops))
    /\ pc = "ltor" => (i >= -1 /\ i < Len(ops))

\* a collapse shortens vals and ops by one element each; nothing else does
C8_Step ==
    /\ Collapsing => (Len(vals') = Len(vals) - 1 /\ Len(ops') = Len(ops) - 1)
    /\ ~Collapsing => (Len(vals') >= Len(vals) /\ Len(ops') >= Len(ops) /\ applied' = applied)

\* C8: every call terminates; each collapse shortens vals and ops by one
\* element each, a call on k operators makes at most k collapses and exactly
\* k when it succeeds, and no scan indexes past the end of ops or vals.
C8_Terminates == []C8_Safe /\ [][C8_Step]_vars /\ <>(pc = "returned")

C8_Witness ==
    /\ pc = "returned"
    /\ Len(OpsOf(toks)) = MaxOrder
    /\ Len(applied) = MaxOrder
    /\ applied[1] = "EMinus"
    /\ applied[Len(applied)] = "EMinus"

====
